---- MODULE Spec2Model ----
(***************************************************************************)
(* OpenGlider: the parametric glider (Glider2D), its line network          *)
(* (LineSet2D: sort_lines, delete_not_connected, return_lineset) and the   *)
(* 4x4 transformations (openglider.vector.transformation).                 *)
(*                                                                         *)
(* Python objects are modelled by identities: a node object is a member of *)
(* NodeIds, a line object a member of 1..Len(initial line list).  The      *)
(* classes define no __eq__, so ==, != and list.remove compare identities. *)
(***************************************************************************)
EXTENDS Integers, Sequences, FiniteSets, TLC

\* ---------------------------------------------------------------- bounds
MaxNodes == 3
MaxLines == 3
MaxCalls == 2
MaxCells == 4
MaxSpan == 4
MaxCellNum == 8
MaxSpanX == 10
MaxCoord == 1
MaxScale == 2

NodeIds == 1..MaxNodes
NodeTypes == {"lower", "batch", "upper"}
\* rib indices of upper attachment points: the first rib, and one beyond the
\* ribs of every glider the model generates (NumRibs(g) <= MaxCells + 1)
RibNos == {0, MaxCells + 1}

VARIABLES
    nodes,        \* LineSet2D.nodes: list of node objects
    lines,        \* LineSet2D.lines: list of line objects
    lower_point,  \* line -> node (attribute lower_point of each line)
    upper_point,  \* line -> node (attribute upper_point of each line)
    is_sorted,    \* line -> BOOLEAN (attribute is_sorted of each line)
    node_type,    \* node -> class of the node object
    rib_no,       \* node -> up_att_point.rib_no
    temp_node,    \* node -> TRUE when the attribute temp_node has been set
    pc,           \* position inside return_lineset ("idle" outside of it)
    lowest,       \* return_lineset: lower attachment nodes still to be sorted from
    stack,        \* sort_lines: the recursion, one frame <<lower_att, loop index>> per call
    ribs,         \* len(glider.ribs) of the glider passed to return_lineset
    result,       \* the lines of the LineSet returned by the last completed call
    calls,        \* number of return_lineset calls started
    g2d,          \* Glider2D: control points of the curves and cell_num
    tr,           \* transformation.py: the transforms, the points and the results
    stations,     \* the value last returned by cell_dist_interpolation
    cpc           \* a ControlPointContainer, with the event callbacks of its view

lvars == <<nodes, lines, lower_point, upper_point, is_sorted, node_type, rib_no,
           temp_node, pc, lowest, stack, ribs, result, calls>>
vars == <<nodes, lines, lower_point, upper_point, is_sorted, node_type, rib_no,
          temp_node, pc, lowest, stack, ribs, result, calls, g2d, tr, stations,
          cpc>>

\* ------------------------------------------------------- Python list helpers
InSeq(s, e) == \E i \in 1..Len(s) : s[i] = e

\* list.remove(e): drops the first occurrence (callers test InSeq: ValueError)
RemoveFirst(s, e) ==
    LET i == CHOOSE i \in 1..Len(s) : s[i] = e /\ \A j \in 1..(i - 1) : s[j] # e
    IN  SubSeq(s, 1, i - 1) \o SubSeq(s, i + 1, Len(s))

Range(s) == {s[i] : i \in 1..Len(s)}

\* ------------------------------------------------------------- Glider2D
\* A point of a curve is <<x, y>>; a curve is the list of its control points.
LastPoint(curve) == curve[Len(curve)]

\* BezierCurve.interpolate_3d(num=20, axis=1) of the cell-distance curve, for a
\* curve with the two control points [0, 0] and [X, 1] (what the setter
\* cell_dist_controlpoints builds from an empty list): the Bezier curve is the
\* straight line, so the value at index i is the point [X * i, i].  Indices and
\* x-positions are kept as numerators over the denominator den.
Interpolate3D(curve, inum, den) ==
    LET p0 == curve[1]
        p1 == LastPoint(curve)
    IN  <<p0[1] * den + ((p1[1] - p0[1]) * (inum - p0[2] * den)) \div (p1[2] - p0[2]), inum>>

\* start = (self.cell_num % 2) / self.cell_num, as a numerator over cell_num
LinspaceStart(cell_num) == cell_num % 2

LinspaceNum_NoCentre(cell_num) == cell_num \div 2

\* num = self.cell_num // 2 + 1
LinspaceNum(cell_num) == cell_num \div 2 + 1

\* numpy.linspace(start, stop, num): start + k * step with
\* step = (stop - start) / (num - 1); [start] when num = 1.
\* start and stop are numerators over one denominator.
Linspace(start, stop, num) ==
    IF num = 1 THEN <<start>>
    ELSE [k \in 1..num |-> start + ((k - 1) * (stop - start)) \div (num - 1)]

\* Glider2D.cell_dist_interpolation: the list of points [x, i], both
\* coordinates as numerators over cell_num.
cell_dist_interpolation(g) ==
    LET idx == Linspace(LinspaceStart(g.cell_num), g.cell_num, LinspaceNum(g.cell_num))
    IN  [k \in 1..Len(idx) |-> Interpolate3D(g.cell_dist, idx[k], g.cell_num)]

\* get_glider_3d, lines 238-240: the control points of self.aoa after
\* self.aoa.controlpoints = [[p[0] * aoa_x_factor, p[1]] for p in aoa_cp]
\* with aoa_x_factor = x_values[-1] / aoa_cp[-1][0]
RescaledAoa(g) ==
    LET cdi == cell_dist_interpolation(g)
        x_last_num == cdi[Len(cdi)][1]
        aoa_cp == g.aoa
    IN  [k \in 1..Len(aoa_cp) |->
            <<(aoa_cp[k][1] * x_last_num) \div (g.cell_num * LastPoint(aoa_cp)[1]),
              aoa_cp[k][2]>>]

\* get_glider_3d, lines 243-260: one rib per x_value, after the mirrored
\* station has been prepended when x_values[0] != 0.
NumRibs(g) ==
    LET cdi == cell_dist_interpolation(g)
    IN  Len(cdi) + (IF cdi[1][1] # 0 THEN 1 ELSE 0)

\* ------------------------------------------------------------- LineSet2D
LineIds == DOMAIN is_sorted

IsOutOfRange(n) == node_type[n] = "upper" /\ rib_no[n] >= ribs

\* return_lineset, line 383
LowestNodes == SelectSeq(nodes, LAMBDA n : node_type[n] = "lower")

\* Glider2D.get_glider_3d up to the first step of
\* self.lineset.return_lineset(glider): the AoA control points are rescaled
\* (line 240), the ribs are generated (lines 249-261) and return_lineset
\* collects the lower attachment nodes (line 383)
GetGlider3D ==
    /\ pc \in {"idle", "done", "crashed"}
    /\ calls < MaxCalls
    /\ calls' = calls + 1
    /\ g2d' = [g2d EXCEPT !.aoa = RescaledAoa(g2d)]
    /\ ribs' = NumRibs(g2d)
    /\ lowest' = LowestNodes
    /\ stack' = <<>>
    /\ result' = <<>>
    /\ pc' = "sort"
    /\ UNCHANGED <<nodes, lines, lower_point, upper_point, is_sorted, node_type,
                   rib_no, temp_node, tr, stations, cpc>>

\* return_lineset, lines 386-387: the next self.sort_lines(node)
SortNextRoot ==
    /\ pc = "sort"
    /\ stack = <<>>
    /\ lowest # <<>>
    /\ stack' = <<<<Head(lowest), 1>>>>
    /\ lowest' = Tail(lowest)
    /\ UNCHANGED <<nodes, lines, lower_point, upper_point, is_sorted, node_type,
                   rib_no, temp_node, pc, ribs, result, calls, g2d, tr, stations, cpc>>

VisitsLine_Always(l) == TRUE

\* sort_lines: the guard of line 407
VisitsLine(l) == ~is_sorted[l]

SwapNeeded_Never(lower_att, line) == FALSE

\* sort_lines: the test of line 408, which swaps the endpoints of the line
SwapNeeded(lower_att, line) == lower_att = upper_point[line]

\* sort_lines: one iteration of the loop of the innermost active call
\* (or its return when the loop is exhausted)
SortStep ==
    /\ pc = "sort"
    /\ stack # <<>>
    /\ LET d == Len(stack)
           lower_att == stack[d][1]
           i == stack[d][2]
           rest == SubSeq(stack, 1, d - 1)
       IN  IF i > Len(lines)
           THEN /\ stack' = rest
                /\ UNCHANGED <<lower_point, upper_point, is_sorted>>
           ELSE LET line == lines[i]
                    swap == SwapNeeded(lower_att, line)
                    lo == IF swap THEN upper_point[line] ELSE lower_point[line]
                    up == IF swap THEN lower_point[line] ELSE upper_point[line]
                IN  IF VisitsLine(line)
                    THEN /\ lower_point' = [lower_point EXCEPT ![line] = lo]
                         /\ upper_point' = [upper_point EXCEPT ![line] = up]
                         /\ IF lower_att = lo
                            THEN /\ is_sorted' = [is_sorted EXCEPT ![line] = TRUE]
                                 /\ stack' = rest \o <<<<lower_att, i + 1>>, <<up, 1>>>>
                            ELSE /\ is_sorted' = is_sorted
                                 /\ stack' = rest \o <<<<lower_att, i + 1>>>>
                    ELSE /\ stack' = rest \o <<<<lower_att, i + 1>>>>
                         /\ UNCHANGED <<lower_point, upper_point, is_sorted>>
    /\ UNCHANGED <<nodes, lines, node_type, rib_no, temp_node, pc, lowest, ribs,
                   result, calls, g2d, tr, stations, cpc>>

\* return_lineset, line 388 is reached when every sort_lines call has returned
SortDone ==
    /\ pc = "sort"
    /\ stack = <<>>
    /\ lowest = <<>>
    /\ pc' = "prune"
    /\ UNCHANGED <<nodes, lines, lower_point, upper_point, is_sorted, node_type,
                   rib_no, temp_node, lowest, stack, ribs, result, calls, g2d, tr,
                   stations, cpc>>

\* delete_not_connected, lines 417-421: the first loop, from index i of
\* self.lines on.  err is set when self.nodes.remove raises ValueError.
RECURSIVE MarkLoop(_, _, _)
MarkLoop(i, ns, temp) ==
    IF i > Len(lines) THEN [nodes |-> ns, temp |-> temp, err |-> FALSE]
    ELSE LET line == lines[i]
         IN  IF IsOutOfRange(upper_point[line])
             THEN IF InSeq(ns, upper_point[line])
                  THEN MarkLoop(i + 1, RemoveFirst(ns, upper_point[line]), Append(temp, line))
                  ELSE [nodes |-> ns, temp |-> Append(temp, line), err |-> TRUE]
             ELSE MarkLoop(i + 1, ns, temp)

\* line 425
conn_up_lines(ls, line) ==
    SelectSeq(ls, LAMBDA j : lower_point[j] = lower_point[line] /\ j # line)

\* line 426
conn_lo_lines(ls, line) ==
    SelectSeq(ls, LAMBDA j : upper_point[j] = lower_point[line] /\ j # line)

\* delete_not_connected, lines 423-432.  s.temp is the list the for loop
\* iterates, s.k the position of its iterator; s.temp_new is the list named
\* temp_new.  After the first "temp = temp_new" both names denote one list
\* (s.aliased): "temp_new += ..." and "temp.remove(line)" then act on the list
\* being iterated.  err is set when a list.remove raises ValueError.
RECURSIVE Cascade(_)
Cascade(s) ==
    IF s.err THEN s
    ELSE IF s.k > Len(s.temp)
    THEN \* the for loop is exhausted: temp = temp_new, then "while temp"
         LET t == IF s.aliased THEN s.temp ELSE s.temp_new
         IN  IF t = <<>> THEN [s EXCEPT !.temp = t]
             ELSE Cascade([s EXCEPT !.temp = t, !.temp_new = t, !.aliased = TRUE, !.k = 1])
    ELSE LET line == s.temp[s.k]
             up == conn_up_lines(s.lines, line)
             lo == conn_lo_lines(s.lines, line)
         IN  IF Len(up) = 0
             THEN IF ~InSeq(s.nodes, lower_point[line])
                  THEN [s EXCEPT !.err = TRUE]
                  ELSE IF ~InSeq(s.lines, line)
                  THEN [s EXCEPT !.nodes = RemoveFirst(s.nodes, lower_point[line]),
                                 !.err = TRUE]
                  ELSE LET grown == IF s.aliased THEN s.temp \o lo ELSE s.temp
                           new == IF s.aliased THEN RemoveFirst(grown, line)
                                  ELSE s.temp_new \o lo
                       IN  Cascade([s EXCEPT
                                !.nodes = RemoveFirst(s.nodes, lower_point[line]),
                                !.lines = RemoveFirst(s.lines, line),
                                !.temp = RemoveFirst(grown, line),
                                !.temp_new = new,
                                !.k = s.k + 1])
             ELSE Cascade([s EXCEPT
                      !.temp = RemoveFirst(s.temp, line),
                      !.temp_new = IF s.aliased THEN RemoveFirst(s.temp, line)
                                   ELSE s.temp_new,
                      !.k = s.k + 1])

\* delete_not_connected(glider): the node list and the line list it leaves
delete_not_connected ==
    LET m == MarkLoop(1, nodes, <<>>)
    IN  IF m.err THEN [nodes |-> m.nodes, lines |-> lines, err |-> TRUE]
        ELSE IF m.temp = <<>> THEN [nodes |-> m.nodes, lines |-> lines, err |-> FALSE]
        ELSE LET c == Cascade([nodes |-> m.nodes, lines |-> lines, temp |-> m.temp,
                               temp_new |-> <<>>, aliased |-> FALSE, k |-> 1,
                               err |-> FALSE])
             IN  [nodes |-> c.nodes, lines |-> c.lines, err |-> c.err]

\* return_lineset, line 388
Prune ==
    /\ pc = "prune"
    /\ LET d == delete_not_connected
       IN  /\ nodes' = d.nodes
           /\ lines' = d.lines
           /\ pc' = IF d.err THEN "crashed" ELSE "resolve"
    /\ UNCHANGED <<lower_point, upper_point, is_sorted, node_type, rib_no,
                   temp_node, lowest, stack, ribs, result, calls, g2d, tr, stations, cpc>>

\* return_lineset, lines 389-390: the index of the first node whose get_node
\* raises (up_att_point.get_node: glider.ribs[self.rib_no], IndexError), or 0
FirstBadNode ==
    IF \E i \in 1..Len(nodes) : IsOutOfRange(nodes[i])
    THEN CHOOSE i \in 1..Len(nodes) :
            /\ IsOutOfRange(nodes[i])
            /\ \A j \in 1..(i - 1) : ~IsOutOfRange(nodes[j])
    ELSE 0

\* return_lineset, lines 393-394: reading temp_node of a node that never got
\* one raises AttributeError
HasTempNodes(tn, line) == tn[lower_point[line]] /\ tn[upper_point[line]]

\* return_lineset, lines 389-400
Resolve ==
    /\ pc = "resolve"
    /\ LET bad == FirstBadNode
           upto == IF bad = 0 THEN Len(nodes) ELSE bad - 1
           tn == [n \in NodeIds |-> temp_node[n] \/ \E i \in 1..upto : nodes[i] = n]
       IN  /\ temp_node' = tn
           /\ IF bad # 0 \/ \E i \in 1..Len(lines) : ~HasTempNodes(tn, lines[i])
              THEN pc' = "crashed" /\ result' = <<>>
              ELSE pc' = "done" /\ result' = lines
    /\ UNCHANGED <<nodes, lines, lower_point, upper_point, is_sorted, node_type,
                   rib_no, lowest, stack, ribs, calls, g2d, tr, stations, cpc>>

\* ------------------------------------------------- vector/transformation.py
\* A matrix is a list of rows; a batch of points is a list of vectors.
Coords == 0..MaxCoord
Axes == {<<1, 0, 0>>, <<0, 1, 0>>, <<0, 0, 1>>}
QuarterTurns == 0..3

\* numpy: a.dot(b) of two matrices
MatDot(a, b) ==
    [i \in 1..Len(a) |->
        [j \in 1..Len(b[1]) |->
            LET RECURSIVE Sum(_)
                Sum(k) == IF k = 0 THEN 0 ELSE a[i][k] * b[k][j] + Sum(k - 1)
            IN  Sum(Len(b))]]

\* mat[:d, :d]
SubBlock(mat, d) == [i \in 1..d |-> [j \in 1..d |-> mat[i][j]]]

\* Transformation.__call__(vec)
Call(mat, vec) ==
    LET d == Len(vec[1])
    IN  IF d = 2 \/ d = 3
        THEN LET p == MatDot(vec, SubBlock(mat, d))
             IN  [n \in 1..Len(vec) |-> [j \in 1..d |-> p[n][j] + mat[4][j]]]
        ELSE MatDot(vec, SubBlock(mat, 4))

Dot_Reversed(self, other) == MatDot(other, self)

\* Transformation.dot(other)
Dot(self, other) == MatDot(self, other)

\* Rotation(angle, axis) for angle = q quarter turns and a unit axis.  With
\* a = cos(angle / 2) and s = sin(angle / 2), cc = 2 a^2, ss = 2 s^2 and
\* cs = 2 a s are integers for these angles; (b, c, d) = -axis * s.
Rotation(q, axis) ==
    LET cc == <<2, 1, 0, 1>>[q + 1]
        ss == <<0, 1, 2, 1>>[q + 1]
        cs == <<0, 1, 0, -1>>[q + 1]
        x == axis[1]
        y == axis[2]
        z == axis[3]
    IN  << <<(cc + ss * (x * x - y * y - z * z)) \div 2, x * y * ss + z * cs,
             x * z * ss - y * cs, 0>>,
           <<x * y * ss - z * cs, (cc + ss * (y * y - x * x - z * z)) \div 2,
             y * z * ss + x * cs, 0>>,
           <<x * z * ss + y * cs, y * z * ss - x * cs,
             (cc + ss * (z * z - x * x - y * y)) \div 2, 0>>,
           <<0, 0, 0, 1>> >>

\* Reflection(axis) for a unit axis
Reflection(axis) ==
    LET x == axis[1]
        y == axis[2]
        z == axis[3]
    IN  << <<1 - 2 * x * x, -2 * x * y, -2 * x * z, 0>>,
           <<-2 * x * y, 1 - 2 * y * y, -2 * y * z, 0>>,
           <<-2 * x * z, -2 * y * z, 1 - 2 * z * z, 0>>,
           <<0, 0, 0, 1>> >>

\* Scale(scale_values) for a list of three factors
Scale(v) ==
    << <<v[1], 0, 0, 0>>, <<0, v[2], 0, 0>>, <<0, 0, v[3], 0>>, <<0, 0, 0, 1>> >>

\* Scale(scale_values) for a number: np.ones(3) * scale_values
ScaleScalar(f) == Scale(<<f, f, f>>)

\* Translate(vec)
Translate(vec) ==
    << <<1, 0, 0, 0>>, <<0, 1, 0, 0>>, <<0, 0, 1, 0>>, <<vec[1], vec[2], vec[3], 1>> >>

\* the vector of length c along a unit axis
Along(c, axis) == [i \in 1..3 |-> c * axis[i]]

\* the factor f along a unit axis and 1 along the other two
ScaleAlong(f, axis) == [i \in 1..3 |-> IF axis[i] = 1 THEN f ELSE 1]

Transforms ==
    {Rotation(q, ax) : q \in QuarterTurns, ax \in Axes}
        \cup {Reflection(ax) : ax \in Axes}
        \cup {ScaleScalar(f) : f \in 1..MaxScale}
        \cup {Scale(ScaleAlong(f, ax)) : f \in 1..MaxScale, ax \in Axes}
        \cup {Translate(Along(c, ax)) : c \in Coords, ax \in Axes}

\* T1.dot(T2)(points)
ApplyDot ==
    /\ tr.t1 # <<>>
    /\ tr.composed = <<>>
    /\ tr' = [tr EXCEPT !.composed = Call(Dot(tr.t1, tr.t2), tr.points)]
    /\ UNCHANGED <<lvars, g2d, stations, cpc>>

\* T1(T2(points))
ApplyT1AfterT2 ==
    /\ tr.t1 # <<>>
    /\ tr.t1_of_t2 = <<>>
    /\ tr' = [tr EXCEPT !.t1_of_t2 = Call(tr.t1, Call(tr.t2, tr.points))]
    /\ UNCHANGED <<lvars, g2d, stations, cpc>>

\* T2(T1(points))
ApplyT2AfterT1 ==
    /\ tr.t1 # <<>>
    /\ tr.t2_of_t1 = <<>>
    /\ tr' = [tr EXCEPT !.t2_of_t1 = Call(tr.t2, Call(tr.t1, tr.points))]
    /\ UNCHANGED <<lvars, g2d, stations, cpc>>

\* the property Glider2D.cell_dist_interpolation is read
CellDistInterpolation ==
    /\ stations = <<>>
    /\ stations' = cell_dist_interpolation(g2d)
    /\ UNCHANGED <<lvars, g2d, tr, cpc>>

\* --------------------------- freecad/glider_gui/objects/_base.py
MaxPoints == 2
MaxPos == 2
PixelsPerUnit == 10

\* (abs(s[0] - pos[0]) ** 2 + abs(s[1] - pos[1]) ** 2) < (15 ** 2)
HighlightRadius == 15

\* event.getKey() == 65307
Escape == 65307

Keys == {Escape, Escape + 1}

None == "None"

\* self.current_point = None; a point is named by its index in control_points
NoPoint == 0

\* the view object handed to set_edit_mode
View == "view"

\* mouse positions of the SoLocation2Event events, in pixels
Pixels == {PixelsPerUnit * i : i \in 0..MaxPos}

\* view.getPointOnScreen and view.getPoint along the x axis of a view that
\* shows PixelsPerUnit pixels per unit of length
getPointOnScreen(x) == x * PixelsPerUnit

getPoint(pos) == pos \div PixelsPerUnit

\* ControlPointContainer.__init__ with ControlPoint.__init__ for each point;
\* callbacks is the set of callbacks registered on the view
ControlPointContainer(points) ==
    [control_points |-> [i \in 1..Len(points) |-> [x |-> points[i], mouse_over |-> FALSE]],
     view |-> None,
     drag |-> None,
     drag_check |-> FALSE,
     current_point |-> NoPoint,
     is_edit |-> FALSE,
     callbacks |-> {},
     error |-> None]

NoContainer == ControlPointContainer(<<>>)

\* an access to an attribute of self.view when self.view is None
AttributeError(c) == [c EXCEPT !.error = "AttributeError"]

unset_edit_mode(c) ==
    IF c.is_edit
    THEN IF c.view = None
         THEN AttributeError([c EXCEPT !.is_edit = FALSE])
         ELSE [c EXCEPT !.is_edit = FALSE,
                        !.callbacks = @ \ {"highlight_cb", "drag_main_cb", "exit_cb"},
                        !.view = None]
    ELSE c

set_edit_mode(c, view) ==
    IF ~c.is_edit
    THEN [c EXCEPT !.is_edit = TRUE,
                   !.view = view,
                   !.callbacks = @ \cup {"highlight_cb", "drag_main_cb", "exit_cb"}]
    ELSE unset_edit_mode(c)

exit_cb(c, key) == IF key = Escape THEN unset_edit_mode(c) ELSE c

IsNear(point, pos) ==
    LET d == getPointOnScreen(point.x) - pos
    IN  d * d < HighlightRadius * HighlightRadius

\* the loop leaves current_point at the last point of the list that is near
\* the mouse, and mouse_over set on exactly the points near the mouse
highlight_cb(c, pos) ==
    IF c.drag # None THEN c
    ELSE IF c.view = None /\ c.control_points # <<>>
    THEN AttributeError([c EXCEPT !.current_point = NoPoint])
    ELSE LET n == Len(c.control_points)
             hits == {i \in 1..n : IsNear(c.control_points[i], pos)}
         IN  [c EXCEPT !.current_point =
                           IF hits = {} THEN NoPoint
                           ELSE CHOOSE i \in hits : \A j \in hits : j <= i,
                       !.control_points =
                           [i \in 1..n |-> [@[i] EXCEPT !.mouse_over = i \in hits]]]

drag_main_cb(c) ==
    IF c.current_point # NoPoint /\ ~c.drag_check
    THEN IF c.view = None
         THEN AttributeError([c EXCEPT !.drag_check = TRUE])
         ELSE [c EXCEPT !.drag_check = TRUE,
                        !.drag = "drag_cb",
                        !.callbacks = @ \cup {"drag_cb"}]
    ELSE IF c.drag # None /\ c.drag_check
    THEN IF c.view = None
         THEN AttributeError([c EXCEPT !.drag_check = FALSE])
         ELSE [c EXCEPT !.drag_check = FALSE,
                        !.callbacks = @ \ {"drag_cb"},
                        !.drag = None]
    ELSE c

\* trigger_func is None_func unless the caller passes another function
drag_cb(c, pos) ==
    IF c.current_point = NoPoint \/ c.view = None
    THEN AttributeError(c)
    ELSE [c EXCEPT !.control_points[c.current_point].x = getPoint(pos)]

\* the GUI command that opens or closes the editing of the container
SetEditMode ==
    /\ cpc' = set_edit_mode(cpc, View)
    /\ UNCHANGED <<lvars, g2d, tr, stations>>

UnsetEditMode ==
    /\ cpc' = unset_edit_mode(cpc)
    /\ UNCHANGED <<lvars, g2d, tr, stations>>

\* a SoKeyboardEvent of the view
KeyEvent ==
    /\ "exit_cb" \in cpc.callbacks
    /\ \E key \in Keys : cpc' = exit_cb(cpc, key)
    /\ UNCHANGED <<lvars, g2d, tr, stations>>

\* a SoLocation2Event of the view: it runs every callback registered for it.
\* highlight_cb does nothing while self.drag is set and drag_cb leaves
\* self.drag alone, so the order of the two does not matter.
MouseMove ==
    /\ cpc.callbacks \cap {"highlight_cb", "drag_cb"} # {}
    /\ \E pos \in Pixels :
         LET c1 == IF "highlight_cb" \in cpc.callbacks THEN highlight_cb(cpc, pos) ELSE cpc
         IN  cpc' = IF "drag_cb" \in c1.callbacks THEN drag_cb(c1, pos) ELSE c1
    /\ UNCHANGED <<lvars, g2d, tr, stations>>

\* a SoMouseButtonEvent of the view
MouseButton ==
    /\ "drag_main_cb" \in cpc.callbacks
    /\ cpc' = drag_main_cb(cpc)
    /\ UNCHANGED <<lvars, g2d, tr, stations>>

\* ------------------------------------------------------ initial states
\* Line2D.__init__ (is_sorted = False), LineSet2D.__init__ and the node
\* classes: the first n node objects are in the node list; lines may refer to
\* any node object, also one that is not in the list.  No node has a temp_node.
InitLineSet ==
    /\ \E n \in (MaxNodes - 1)..MaxNodes : nodes = [i \in 1..n |-> i]
    /\ node_type \in [NodeIds -> NodeTypes]
    /\ rib_no \in [NodeIds -> RibNos]
    /\ \A n \in NodeIds : node_type[n] # "upper" => rib_no[n] = 0
    /\ \E m \in 1..MaxLines :
        /\ lines = [i \in 1..m |-> i]
        /\ lower_point \in [1..m -> NodeIds]
        /\ upper_point \in [1..m -> NodeIds]
        /\ is_sorted = [i \in 1..m |-> FALSE]
    /\ temp_node = [n \in NodeIds |-> FALSE]
    /\ pc = "idle"
    /\ lowest = <<>>
    /\ stack = <<>>
    /\ ribs = 0
    /\ result = <<>>
    /\ calls = 0

\* Glider2D.__init__ with the curves given by their control points
Glider2DInit(X, a, c) ==
    [front |-> <<<<0, 2>>, <<X, 1>>>>,
     back |-> <<<<0, 0>>, <<X, 1>>>>,
     cell_dist |-> <<<<0, 0>>, <<X, 1>>>>,
     cell_num |-> c,
     arc |-> <<<<0, 1>>, <<X, 0>>>>,
     aoa |-> <<<<0, 1>>, <<a, 0>>>>]

NoTransform ==
    [t1 |-> <<>>, t2 |-> <<>>, points |-> <<>>, composed |-> <<>>, t1_of_t2 |-> <<>>,
     t2_of_t1 |-> <<>>]

Init ==
    /\ InitLineSet
    /\ g2d = Glider2DInit(MaxSpan, MaxSpan, MaxCells)
    /\ tr = NoTransform
    /\ stations = <<>>
    /\ cpc = NoContainer

Next ==
    \/ GetGlider3D
    \/ SortNextRoot
    \/ SortStep
    \/ SortDone
    \/ Prune
    \/ Resolve

Spec == Init /\ [][Next]_vars

\* LineSet2D([], []): the default line set of Glider2D.__init__
InitEmptyLineSet ==
    /\ nodes = <<>>
    /\ lines = <<>>
    /\ lower_point = <<>>
    /\ upper_point = <<>>
    /\ is_sorted = <<>>
    /\ node_type = [n \in NodeIds |-> "batch"]
    /\ rib_no = [n \in NodeIds |-> 0]
    /\ temp_node = [n \in NodeIds |-> FALSE]
    /\ pc = "idle"
    /\ lowest = <<>>
    /\ stack = <<>>
    /\ ribs = 0
    /\ result = <<>>
    /\ calls = 0

\* the line set of a small canopy: lower node 1, upper nodes 2 and 3 on the
\* first rib, the lines (2, 1) and (1, 3) as the editor stored them
InitSmallLineSet ==
    /\ nodes = <<1, 2, 3>>
    /\ lines = <<1, 2>>
    /\ lower_point = <<1, 3>>
    /\ upper_point = <<2, 1>>
    /\ is_sorted = <<FALSE, FALSE>>
    /\ node_type = [n \in NodeIds |-> IF n = 1 THEN "lower" ELSE "upper"]
    /\ rib_no = [n \in NodeIds |-> 0]
    /\ temp_node = [n \in NodeIds |-> FALSE]
    /\ pc = "idle"
    /\ lowest = <<>>
    /\ stack = <<>>
    /\ ribs = 0
    /\ result = <<>>
    /\ calls = 0

\* regenerations of parametric models with different spans, AoA curves and
\* cell counts
InitG ==
    /\ InitSmallLineSet
    /\ \E X \in 1..MaxSpan : \E a \in 1..MaxSpan : \E c \in 1..MaxCells :
         g2d = Glider2DInit(X, a, c)
    /\ tr = NoTransform
    /\ stations = <<>>
    /\ cpc = NoContainer

SpecG == InitG /\ [][Next]_vars

\* cell distributions of models with different spans and cell counts
InitC ==
    /\ InitEmptyLineSet
    /\ \E X \in 1..MaxSpanX : \E c \in 1..MaxCellNum : g2d = Glider2DInit(X, X, c)
    /\ tr = NoTransform
    /\ stations = <<>>
    /\ cpc = NoContainer

NextC == CellDistInterpolation

SpecC == InitC /\ [][NextC]_vars

\* two transforms and a batch of one or two 3D points (a point alone, or with
\* its image under the point reflection of the coordinate cube)
InitT ==
    /\ InitEmptyLineSet
    /\ g2d = Glider2DInit(MaxSpan, MaxSpan, MaxCells)
    /\ stations = <<>>
    /\ cpc = NoContainer
    /\ \E t1, t2 \in Transforms : \E p \in [1..3 -> Coords] : \E n \in 1..2 :
         tr = [NoTransform EXCEPT
                 !.t1 = t1, !.t2 = t2,
                 !.points = IF n = 1 THEN <<p>>
                            ELSE <<p, [i \in 1..3 |-> MaxCoord - p[i]]>>]

NextT ==
    \/ ApplyDot
    \/ ApplyT1AfterT2
    \/ ApplyT2AfterT1

SpecT == InitT /\ [][NextT]_vars

\* containers of up to MaxPoints control points, not yet in edit mode
InitE ==
    /\ InitEmptyLineSet
    /\ g2d = Glider2DInit(MaxSpan, MaxSpan, MaxCells)
    /\ tr = NoTransform
    /\ stations = <<>>
    /\ \E n \in 0..MaxPoints : \E points \in [1..n -> 0..MaxPos] :
         cpc = ControlPointContainer(points)

NextE ==
    \/ SetEditMode
    \/ UnsetEditMode
    \/ KeyEvent
    \/ MouseMove
    \/ MouseButton

SpecE == InitE /\ [][NextE]_vars

\* ------------------------------------------------- the network as a graph
ListedLines == Range(lines)
ListedNodes == Range(nodes)
Endpoints(l) == {lower_point[l], upper_point[l]}

\* the nodes connected to a node of S by the lines of ls
RECURSIVE Reach(_, _)
Reach(S, ls) ==
    LET T == S \cup UNION {Endpoints(l) : l \in {x \in ls : Endpoints(x) \cap S # {}}}
    IN  IF T = S THEN S ELSE Reach(T, ls)

Roots == {n \in ListedNodes : node_type[n] = "lower"}

\* a line that lies on a cycle of two or more lines
OnCycle(l) ==
    /\ lower_point[l] # upper_point[l]
    /\ upper_point[l] \in Reach({lower_point[l]}, ListedLines \ {l})

\* a forest whose every connected component holds exactly one lower
\* attachment node
IsRootedForest ==
    /\ \A l \in ListedLines : Endpoints(l) \subseteq ListedNodes
    /\ \A l \in ListedLines : lower_point[l] # upper_point[l] /\ ~OnCycle(l)
    /\ \A n \in ListedNodes : Cardinality(Reach({n}, ListedLines) \cap Roots) = 1

SortFinished == pc = "prune" /\ calls = 1

\* C1: in a forest with exactly one lower attachment node per component whose
\* lines all start unsorted, sorting from every lower attachment node leaves
\* every line sorted with its lower_point at the endpoint nearer the root (the
\* endpoint that stays connected to the root when the line is taken away).
C1_ForestSorted ==
    (SortFinished /\ IsRootedForest) =>
        \A l \in ListedLines :
            /\ is_sorted[l]
            /\ Reach({lower_point[l]}, ListedLines \ {l}) \cap Roots # {}
            /\ Reach({upper_point[l]}, ListedLines \ {l}) \cap Roots = {}

\* one lower node L with the sorted lines (U1, L) and (U2, L)
C1_Witness ==
    /\ SortFinished
    /\ IsRootedForest
    /\ \E l1, l2 \in ListedLines :
            /\ l1 # l2
            /\ lower_point[l1] = lower_point[l2]
            /\ node_type[lower_point[l1]] = "lower"
            /\ node_type[upper_point[l1]] = "upper"
            /\ node_type[upper_point[l2]] = "upper"
            /\ is_sorted[l1] /\ is_sorted[l2]

\* sort_lines: a bound on the loop iterations still to come.  Every call frame
\* has Len(lines) + 2 - i steps left; every unsorted line and every root not yet
\* started can open one more frame.
RECURSIVE FrameSteps(_)
FrameSteps(st) ==
    IF st = <<>> THEN 0
    ELSE (Len(lines) + 2 - Head(st)[2]) + FrameSteps(Tail(st))

SortRank ==
    (Cardinality({l \in LineIds : ~is_sorted[l]}) + Len(lowest)) * (Len(lines) + 2)
        + FrameSteps(stack)

\* C9: sort_lines terminates on every finite line set (cycles, self-loops and
\* several lower nodes in a component included): every step of the sorting
\* strictly decreases the natural number SortRank, a call is entered only
\* through a line that was unsorted when visited, and no is_sorted flag ever
\* goes back from true to false.
C9_SortTerminates ==
    [][/\ (pc = "sort" /\ pc' = "sort") => (SortRank' < SortRank /\ SortRank' >= 0)
       /\ (pc = "sort" /\ Len(stack') > Len(stack) /\ stack # <<>>) =>
             LET line == lines[stack[Len(stack)][2]]
             IN  ~is_sorted[line] /\ is_sorted'[line]
       /\ \A l \in LineIds : is_sorted[l] => is_sorted'[l]]_vars

\* the sorting has returned on a line set with a cycle, a self-loop and on one
\* with two lower nodes in a component
C9_Witness ==
    /\ pc = "prune"
    /\ \E l \in ListedLines :
        /\ is_sorted[l]
        /\ \/ OnCycle(l)
           \/ lower_point[l] = upper_point[l]
           \/ Endpoints(l) \subseteq Roots /\ lower_point[l] # upper_point[l]

\* C10 as stated: when the line set holds a true cycle, after sort_lines has run
\* from every lower attachment node some segment of the cycle is still unsorted.
C10_CycleLeavesUnsorted ==
    SortFinished =>
        \A l \in ListedLines :
            OnCycle(l) =>
                \E k \in ListedLines :
                    /\ OnCycle(k)
                    /\ Endpoints(k) \subseteq Reach(Endpoints(l), ListedLines)
                    /\ ~is_sorted[k]

\* C10 amended: the sorting returns, and a segment of a cycle is left unsorted
\* exactly when the cycle is not connected to any lower attachment node of the
\* node list; every segment of a cycle that is connected to one ends sorted.
C10_CycleSortedIffRooted ==
    SortFinished =>
        \A l \in ListedLines :
            OnCycle(l) =>
                (is_sorted[l] <=> Reach(Endpoints(l), ListedLines) \cap Roots # {})

C10_Witness ==
    /\ SortFinished
    /\ \E l \in ListedLines :
        /\ OnCycle(l)
        /\ is_sorted[l]
        /\ node_type[lower_point[l]] # "lower"

\* the sorted network of C2: lower node L, upper nodes U1 (rib in range) and
\* U2 (rib index beyond the ribs), line a = (U1, L) and line b = (U2, L)
IsC2Network(L, U1, U2, a, b) ==
    /\ ListedNodes = {L, U1, U2}
    /\ ListedLines = {a, b}
    /\ a # b
    /\ node_type[L] = "lower"
    /\ node_type[U1] = "upper" /\ ~IsOutOfRange(U1)
    /\ IsOutOfRange(U2)
    /\ lower_point[a] = L /\ upper_point[a] = U1 /\ is_sorted[a]
    /\ lower_point[b] = L /\ upper_point[b] = U2 /\ is_sorted[b]

\* C2: on the sorted network L, U1 (in range), U2 (out of range) with the lines
\* (U1, L) and (U2, L), delete_not_connected removes exactly the line (U2, L)
\* and the node U2: the line list becomes [(U1, L)], the node list keeps L and
\* U1 and loses U2.
C2_PrunesStaleLine ==
    [][\A L, U1, U2 \in NodeIds : \A a, b \in LineIds :
          (pc = "prune" /\ IsC2Network(L, U1, U2, a, b)) =>
              /\ pc' = "resolve"
              /\ lines' = <<a>>
              /\ InSeq(nodes', L) /\ InSeq(nodes', U1) /\ ~InSeq(nodes', U2)]_vars

\* following lower_point links from node n reaches a lower attachment node of
\* the node list within fuel lines
RECURSIVE ChainDown(_, _)
ChainDown(n, fuel) ==
    \/ n \in Roots
    \/ /\ fuel > 0
       /\ \E l \in ListedLines : upper_point[l] = n /\ ChainDown(lower_point[l], fuel - 1)

\* every line of the line list has both endpoints in the node list and a
\* chain of lines down to a lower attachment node of the node list
LiveChains ==
    \A l \in ListedLines :
        /\ Endpoints(l) \subseteq ListedNodes
        /\ ChainDown(lower_point[l], Len(lines))

IsSortedForest ==
    /\ IsRootedForest
    /\ \A l \in ListedLines :
        /\ is_sorted[l]
        /\ Reach({lower_point[l]}, ListedLines \ {l}) \cap Roots # {}

\* C3: on every sorted forest and for every choice of out-of-range upper
\* attachment nodes, when delete_not_connected returns every remaining line has
\* both endpoints in the node list and a chain of lower_point links down to a
\* lower attachment node that is in the node list.
C3_PruneLeavesLiveChains ==
    [][(pc = "prune" /\ IsSortedForest /\ pc' = "resolve") => LiveChains']_vars

\* C4: at the start of every return_lineset call every is_sorted flag of the
\* line set is false, also when an earlier call has resolved the same line set.
C4_FlagsResetAtCallStart ==
    [][(pc # "sort" /\ pc' = "sort") => \A l \in Range(lines') : ~is_sorted'[l]]_vars

\* a line of the line list that refers to a node object missing from the node
\* list, or that the traversal has left unsorted
IsMalformed(l) == ~(Endpoints(l) \subseteq ListedNodes) \/ ~is_sorted[l]

\* no upper attachment node of the network has a rib index beyond the ribs, so
\* delete_not_connected has nothing to prune and the node list is the input's
NoStaleRib == \A n \in NodeIds : ~IsOutOfRange(n)

\* C7: when the line set holds a malformed branch, return_lineset does not
\* abort: it completes, and its output holds the resolved line of every line
\* whose endpoints are in the node list.
C7_MalformedBranchIsolated ==
    (/\ calls = 1
     /\ pc \in {"done", "crashed"}
     /\ NoStaleRib
     /\ \E l \in ListedLines : IsMalformed(l))
        => /\ pc = "done"
           /\ \A l \in ListedLines : Endpoints(l) \subseteq ListedNodes => InSeq(result, l)

\* C5 as stated: T1.dot(T2) applied to a batch of 3D points gives T1(T2(points)).
C5_DotAppliesSecondFirst ==
    (tr.composed # <<>> /\ tr.t1_of_t2 # <<>>) => tr.composed = tr.t1_of_t2

\* C5 amended: T1.dot(T2) applied to a batch of 3D points gives T2(T1(points)):
\* the composed transform applies T1 first and T2 last.
C5_DotAppliesFirstFirst ==
    (tr.composed # <<>> /\ tr.t2_of_t1 # <<>>) => tr.composed = tr.t2_of_t1

\* a composition whose order matters has been applied both ways
C5_Witness ==
    /\ tr.composed # <<>>
    /\ tr.t2_of_t1 # <<>>
    /\ tr.t1_of_t2 # <<>>
    /\ tr.t1_of_t2 # tr.t2_of_t1
    /\ Len(tr.points) = 2

\* C6: a regeneration leaves the control points of the front, back, arc,
\* angle-of-attack and cell-distance curves and the cell count as they were
\* (no step of get_glider_3d or of the resolution it runs changes them, so
\* they are the same after the call as before it).
C6_RegenerationKeepsModel ==
    [][/\ g2d'.front = g2d.front
       /\ g2d'.back = g2d.back
       /\ g2d'.arc = g2d.arc
       /\ g2d'.aoa = g2d.aoa
       /\ g2d'.cell_dist = g2d.cell_dist
       /\ g2d'.cell_num = g2d.cell_num]_vars

PrunedInput ==
    /\ InSeq(nodes, MaxNodes)
    /\ ListedLines = LineIds
    /\ \A n \in ListedNodes : ~IsOutOfRange(n)
    /\ \A l \in ListedLines :
        is_sorted[l] /\ lower_point[l] # upper_point[l] /\ ~OnCycle(l)

\* C11: resolution is repeatable: the second of two return_lineset calls on
\* the same line set with the same rib count completes without error and
\* leaves the node list, the line list and the orientation of the lines as the
\* first call left them, also when the first call pruned out-of-range upper
\* attachment nodes.
C11_SecondCallRepeats ==
    [][(calls = 2 /\ PrunedInput) =>
          /\ pc' # "crashed"
          /\ nodes' = nodes
          /\ lines' = lines
          /\ lower_point' = lower_point
          /\ upper_point' = upper_point]_vars

\* C12: when delete_not_connected returns, every upper attachment node still
\* in the node list has rib_no < len(glider.ribs), whatever the line set
\* (upper attachment nodes without a line, nodes on unsorted lines and nodes
\* shared by several lines included).
C12_NoStaleUpperNodeLeft ==
    [][(pc = "prune" /\ pc' = "resolve") =>
          \A n \in Range(nodes') : ~(node_type[n] = "upper" /\ rib_no[n] >= ribs)]_vars

\* ------------------------------------------------ the editing of a container
DragRegistered == "drag_cb" \in cpc.callbacks

\* C13: in every state reachable by set_edit_mode, unset_edit_mode, Escape,
\* mouse-move and mouse-button events, a registered drag callback implies edit
\* mode with a view and a current point; no callback has raised on a None view
\* or point, and no callback is registered outside of edit mode.
C13_DragOnlyInEditMode ==
    /\ DragRegistered =>
         cpc.is_edit /\ cpc.view # None /\ cpc.current_point # NoPoint
    /\ cpc.error = None
    /\ ~cpc.is_edit => cpc.callbacks = {}

====
